---- MODULE Spec2Model ----
(***************************************************************************)
(* parse_polygons_to_csv.py: placemarks of a KML document are resolved to  *)
(* (name, acres) results and written as a CSV report with a total.         *)
(*                                                                         *)
(* Text is a sequence of one-character strings.  A float is a fixed-point  *)
(* integer counting thousandths (5.2 is 5200).  A Python call returns a    *)
(* record whose field exc is "none" or the name of the exception raised.   *)
(***************************************************************************)
EXTENDS Integers, Sequences, FiniteSets, TLC

VARIABLES doc, results, log, calcs, csvfile, pc, arg, ret

vars == <<doc, results, log, calcs, csvfile, pc, arg, ret>>

-----------------------------------------------------------------------------
(* Bounds of the model.                                                    *)

MaxRecords == 2

MaxSegs == 4

MaxValue == 4

-----------------------------------------------------------------------------
(* Characters and str methods.                                             *)

UpperLetters == <<"A", "B", "C", "D", "E", "F", "G", "H", "I", "J", "K", "L", "M", "N", "O", "P", "Q", "R", "S", "T", "U", "V", "W", "X", "Y", "Z">>

LowerLetters == <<"a", "b", "c", "d", "e", "f", "g", "h", "i", "j", "k", "l", "m", "n", "o", "p", "q", "r", "s", "t", "u", "v", "w", "x", "y", "z">>

Digits == <<"0", "1", "2", "3", "4", "5", "6", "7", "8", "9">>

Range(s) == {s[i] : i \in 1..Len(s)}

\* \s
SpaceChars == {" ", "\n", "\t", "\r"}

IsSpace(c) == c \in SpaceChars

IsDigit(c) == c \in Range(Digits)

\* str.lower() of one character
LowerChar(c) ==
    IF c \in Range(UpperLetters)
    THEN LowerLetters[CHOOSE k \in 1..26 : UpperLetters[k] = c]
    ELSE c

\* str.lower()
Lower(s) == [i \in 1..Len(s) |-> LowerChar(s[i])]

\* str.upper(), used to build inputs only
Upper(s) ==
    [i \in 1..Len(s) |->
        IF s[i] \in Range(LowerLetters)
        THEN UpperLetters[CHOOSE k \in 1..26 : LowerLetters[k] = s[i]]
        ELSE s[i]]

\* str.strip(): the text without its leading and trailing whitespace
Strip(s) ==
    LET keep == {i \in 1..Len(s) : ~IsSpace(s[i])}
    IN  IF keep = {} THEN <<>>
        ELSE LET lo == CHOOSE i \in keep : \A j \in keep : i <= j
                 hi == CHOOSE i \in keep : \A j \in keep : j <= i
             IN  SubSeq(s, lo, hi)

\* the first index from i on whose character is outside the class, or Len+1
RunEnd(s, i, class) ==
    LET out == {j \in i..Len(s) : s[j] \notin class}
    IN  IF out = {} THEN Len(s) + 1
        ELSE CHOOSE j \in out : \A k \in out : j <= k

RECURSIVE DigitsValue(_)
\* the integer written by a sequence of digits
DigitsValue(ds) ==
    IF ds = <<>> THEN 0
    ELSE 10 * DigitsValue(SubSeq(ds, 1, Len(ds) - 1))
         + (CHOOSE k \in 1..10 : Digits[k] = ds[Len(ds)]) - 1

\* float(text) for a text made of digits and dots, in thousandths:
\* ValueError unless the text has a digit and at most one dot
Float(text) ==
    LET dots == {i \in 1..Len(text) : text[i] = "."}
        digs == {i \in 1..Len(text) : IsDigit(text[i])}
    IN  IF Cardinality(dots) > 1 \/ digs = {}
        THEN [exc |-> "ValueError", val |-> 0]
        ELSE LET dot   == IF dots = {} THEN Len(text) + 1 ELSE CHOOSE i \in dots : TRUE
                 whole == SubSeq(text, 1, dot - 1)
                 frac  == SubSeq(SubSeq(text, dot + 1, Len(text)) \o <<"0", "0", "0">>, 1, 3)
             IN  [exc |-> "none", val |-> 1000 * DigitsValue(whole) + DigitsValue(frac)]

-----------------------------------------------------------------------------
(* parse_area_from_description                                             *)

AreaLabel == <<"a", "r", "e", "a", ":">>

\* [\d\.]
NumberChars == Range(Digits) \cup {"."}

\* [a-zA-Z\s]
UnitChars == Range(UpperLetters) \cup Range(LowerLetters) \cup SpaceChars

\* the match of  Area:\s*([\d\.]+)\s*([a-zA-Z\s]+)  (IGNORECASE) that starts
\* at index i.  Every quantifier is greedy; the only backtracking that can
\* succeed is the second \s* giving back its last character when the run
\* after the number is all whitespace.
MatchAt(s, i) ==
    LET label == /\ i + 4 <= Len(s)
                 /\ \A k \in 1..5 : LowerChar(s[i + k - 1]) = AreaLabel[k]
        n1 == RunEnd(s, i + 5, SpaceChars)
        n2 == RunEnd(s, n1, NumberChars)
        u1 == RunEnd(s, n2, SpaceChars)
        u2 == RunEnd(s, n2, UnitChars)
    IN  IF label /\ n2 > n1 /\ u2 > n2
        THEN [found |-> TRUE,
              group1 |-> SubSeq(s, n1, n2 - 1),
              group2 |-> IF u1 = u2 THEN SubSeq(s, u2 - 1, u2 - 1)
                                    ELSE SubSeq(s, u1, u2 - 1)]
        ELSE [found |-> FALSE, group1 |-> <<>>, group2 |-> <<>>]

\* re.search: the match at the leftmost index that has one
Search(s) ==
    LET at == {i \in 1..Len(s) : MatchAt(s, i).found}
    IN  IF at = {} THEN [found |-> FALSE, group1 |-> <<>>, group2 |-> <<>>]
        ELSE MatchAt(s, CHOOSE i \in at : \A j \in at : i <= j)

parse_area_from_description(description) ==
    LET match == Search(description)
    IN  IF match.found
        THEN LET value == Float(match.group1)
             IN  IF value.exc # "none"
                 THEN [exc |-> value.exc, found |-> FALSE, value |-> 0, unit |-> <<>>]
                 ELSE [exc |-> "none", found |-> TRUE, value |-> value.val,
                       unit |-> Lower(match.group2)]
        ELSE [exc |-> "none", found |-> FALSE, value |-> 0, unit |-> <<>>]

-----------------------------------------------------------------------------
(* convert_to_acres                                                        *)

U_acres == <<"a", "c", "r", "e", "s">>
U_sq_mi == <<"s", "q", " ", "m", "i">>
U_square_miles == <<"s", "q", "u", "a", "r", "e", " ", "m", "i", "l", "e", "s">>
U_hectares == <<"h", "e", "c", "t", "a", "r", "e", "s">>
U_sq_km == <<"s", "q", " ", "k", "m">>
U_square_kilometers == <<"s", "q", "u", "a", "r", "e", " ", "k", "i", "l", "o", "m", "e", "t", "e", "r", "s">>
U_sq_ft == <<"s", "q", " ", "f", "t">>
U_square_feet == <<"s", "q", "u", "a", "r", "e", " ", "f", "e", "e", "t">>
U_sqft == <<"s", "q", "f", "t">>
U_sq_m == <<"s", "q", " ", "m">>
U_square_meters == <<"s", "q", "u", "a", "r", "e", " ", "m", "e", "t", "e", "r", "s">>
U_square_metres == <<"s", "q", "u", "a", "r", "e", " ", "m", "e", "t", "r", "e", "s">>
U_sq_meter == <<"s", "q", " ", "m", "e", "t", "e", "r">>
U_sq_metre == <<"s", "q", " ", "m", "e", "t", "r", "e">>

\* the table on the lowercased unit; value * 2.47105, value * 247.105,
\* value / 43560 and value / 4046.86 are rounded down to the thousandth
ConvertTable(value, unit) ==
    IF unit = U_acres
    THEN [exc |-> "none", val |-> value]
    ELSE IF unit \in {U_sq_mi, U_square_miles}
    THEN [exc |-> "none", val |-> value * 640]
    ELSE IF unit = U_hectares
    THEN [exc |-> "none", val |-> (value * 247105) \div 100000]
    ELSE IF unit \in {U_sq_km, U_square_kilometers}
    THEN [exc |-> "none", val |-> (value * 247105) \div 1000]
    ELSE IF unit \in {U_sq_ft, U_square_feet, U_sqft}
    THEN [exc |-> "none", val |-> value \div 43560]
    ELSE IF unit \in {U_sq_m, U_square_meters, U_square_metres, U_sq_meter, U_sq_metre}
    THEN [exc |-> "none", val |-> (value * 100) \div 404686]
    ELSE [exc |-> "ValueError", val |-> 0]

\* convert_to_acres with the unit also stripped of surrounding whitespace
convert_to_acres_stripped(value, unit) == ConvertTable(value, Strip(Lower(unit)))

convert_to_acres(value, unit) == ConvertTable(value, Lower(unit))

-----------------------------------------------------------------------------
(* parse_coordinates, extract_polygon_coords and the geometric area        *)

\* A coordinates text is given as the tokens of coord_text.strip().split(),
\* each token as the pieces of part.split(','); a piece is a number (num,
\* in units of 0.001 degree) or text that float() rejects.
RECURSIVE ParseTokens(_)
ParseTokens(tokens) ==
    IF tokens = <<>> THEN [exc |-> "none", coords |-> <<>>]
    ELSE LET pieces == Head(tokens)
             rest   == ParseTokens(Tail(tokens))
         IN  IF Len(pieces) >= 2
             THEN IF ~pieces[1].num \/ ~pieces[2].num
                  THEN [exc |-> "ValueError", coords |-> <<>>]
                  ELSE IF rest.exc # "none" THEN rest
                  ELSE [exc |-> "none",
                        coords |-> <<<<pieces[1].v, pieces[2].v>>>> \o rest.coords]
             ELSE rest

\* coord_text is the text of a coordinates element: None (no text) has no
\* strip()
parse_coordinates(coord_text) ==
    IF ~coord_text.some
    THEN [exc |-> "AttributeError", coords |-> <<>>]
    ELSE ParseTokens(coord_text.tokens)

\* exterior is None (some = FALSE) when the outer boundary path is absent;
\* the placemarks modelled have no inner boundaries
extract_polygon_coords(polygon_el) ==
    IF ~polygon_el.path
    THEN [exc |-> "none", some |-> FALSE, exterior |-> <<>>]
    ELSE LET parsed == parse_coordinates(polygon_el.text)
         IN  [exc |-> parsed.exc, some |-> TRUE, exterior |-> parsed.coords]

\* _transformer.transform, EPSG:4326 to EPSG:3857, in metres: at the
\* modelled coordinates (a few 0.001 degree from the origin) both axes
\* are 111.3 m per 0.001 degree
Transform(p) == <<111 * p[1], 111 * p[2]>>

RECURSIVE ShoelaceSum(_, _)
ShoelaceSum(ring, i) ==
    IF i > Len(ring) THEN 0
    ELSE LET a == ring[i]
             b == ring[IF i = Len(ring) THEN 1 ELSE i + 1]
         IN  a[1] * b[2] - b[1] * a[2] + ShoelaceSum(ring, i + 1)

\* Polygon(exterior, interiors), transform, .area and / 4046.86: shapely
\* raises ValueError for a ring of fewer than 3 points; the result is in
\* thousandths of an acre
GeometricArea(exterior) ==
    IF Len(exterior) < 3
    THEN [exc |-> "ValueError", val |-> 0]
    ELSE LET poly_m == [i \in 1..Len(exterior) |-> Transform(exterior[i])]
             twice  == ShoelaceSum(poly_m, 1)
             area2  == IF twice < 0 THEN -twice ELSE twice
         IN  [exc |-> "none", val |-> (area2 * 25000) \div 202343]

-----------------------------------------------------------------------------
(* The report                                                              *)

H_polygon_name == <<"P", "o", "l", "y", "g", "o", "n", " ", "N", "a", "m", "e">>
H_total_acreage == <<"T", "o", "t", "a", "l", " ", "A", "c", "r", "e", "a", "g", "e">>
H_total == <<"T", "o", "t", "a", "l">>

RECURSIVE IntText(_)
\* the decimal digits of a natural number
IntText(n) ==
    IF n < 10 THEN <<Digits[n + 1]>>
    ELSE IntText(n \div 10) \o <<Digits[(n % 10) + 1]>>

\* f"{x:.2f}" of a non-negative value: rounded to the hundredth, a tie to
\* the even hundredth
Format2(x) ==
    LET q == x \div 10
        r == x % 10
        c == IF r > 5 \/ (r = 5 /\ q % 2 = 1) THEN q + 1 ELSE q
    IN  IntText(c \div 100) \o <<".", Digits[((c \div 10) % 10) + 1], Digits[(c % 10) + 1]>>

RECURSIVE SumAreas(_)
\* sum(area for _, area in results)
SumAreas(rs) ==
    IF rs = <<>> THEN 0 ELSE rs[1].area + SumAreas(Tail(rs))

\* ReportRows with the total on every data row
ReportRows_total_everywhere(rs) ==
    LET total_acres == SumAreas(rs)
    IN  <<<<H_polygon_name, H_total_acreage, H_total>>>> \o
        [i \in 1..Len(rs) |->
            <<rs[i].name, Format2(rs[i].area), Format2(total_acres)>>]

\* the rows written by lines 179-190
ReportRows(rs) ==
    LET total_acres == SumAreas(rs)
    IN  <<<<H_polygon_name, H_total_acreage, H_total>>>> \o
        [i \in 1..Len(rs) |->
            <<rs[i].name, Format2(rs[i].area),
              IF i = 1 THEN Format2(total_acres) ELSE <<>>>>]

\* Finish without the test of line 171: the table is written even when empty
Finish_always_writes(rs, file) ==
    [pc |-> "written", csvfile |-> [exists |-> TRUE, rows |-> ReportRows(rs)]]

\* what main does once the loop over the placemarks is over
Finish(rs, file) ==
    IF rs = <<>>
    THEN [pc |-> "empty", csvfile |-> file]
    ELSE [pc |-> "written", csvfile |-> [exists |-> TRUE, rows |-> ReportRows(rs)]]

-----------------------------------------------------------------------------
(* One iteration of main's loop over the placemarks                        *)

Unnamed == <<"U", "n", "n", "a", "m", "e", "d">>

\* lines 135-136; the text of an element without content is None
ResolveName(name_el) ==
    IF ~name_el.el THEN [exc |-> "none", name |-> Unnamed]
    ELSE IF name_el.text = <<>> THEN [exc |-> "AttributeError", name |-> <<>>]
    ELSE [exc |-> "none", name |-> Strip(name_el.text)]

\* lines 139-143; re.search raises TypeError on None
ResolveAnnotation(desc_el) ==
    IF ~desc_el.el THEN parse_area_from_description(<<>>)
    ELSE IF desc_el.text = <<>>
    THEN [exc |-> "TypeError", found |-> FALSE, value |-> 0, unit |-> <<>>]
    ELSE parse_area_from_description(desc_el.text)

\* NoCoordinates testing for None only, not for an empty list
NoCoordinates_none_only(ext) == ~ext.some

\* line 147: not exterior
NoCoordinates(ext) == ~ext.some \/ ext.exterior = <<>>

Raised(e, logs, n) == [exc |-> e, out |-> <<>>, logs |-> logs, calcs |-> n]

Continue(out, logs, n) == [exc |-> "none", out |-> out, logs |-> logs, calcs |-> n]

\* lines 158-161 and 164-167, then line 169
Calculate(name, exterior, logs) ==
    LET g == GeometricArea(exterior)
    IN  IF g.exc # "none" THEN Raised(g.exc, logs, 1)
        ELSE Continue(<<[name |-> name, area |-> g.val, from |-> "geometry"]>>, logs, 1)

\* lines 130-169: out is what the iteration appends to results, logs what
\* it logs, calcs the number of geometric calculations it starts
LoopBody(pm) ==
    IF ~pm.polygon THEN Continue(<<>>, <<>>, 0)
    ELSE
    LET n == ResolveName(pm.name) IN
    IF n.exc # "none" THEN Raised(n.exc, <<>>, 0)
    ELSE
    LET area_info == ResolveAnnotation(pm.desc) IN
    IF area_info.exc # "none" THEN Raised(area_info.exc, <<>>, 0)
    ELSE
    LET ext == extract_polygon_coords(pm.coords) IN
    IF ext.exc # "none" THEN Raised(ext.exc, <<>>, 0)
    ELSE IF NoCoordinates(ext)
    THEN Continue(<<>>, <<[kind |-> "no coordinates", name |-> n.name, unit |-> <<>>]>>, 0)
    ELSE IF area_info.found
    THEN LET c == convert_to_acres(area_info.value, area_info.unit)
         IN  IF c.exc = "none"
             THEN Continue(<<[name |-> n.name, area |-> c.val, from |-> "annotation"]>>, <<>>, 0)
             ELSE Calculate(n.name, ext.exterior,
                            <<[kind |-> "unknown unit", name |-> n.name,
                               unit |-> area_info.unit]>>)
    ELSE Calculate(n.name, ext.exterior, <<>>)

-----------------------------------------------------------------------------
(* The documents: what a placemark can hold                                *)

NoElement == [el |-> FALSE, text |-> <<>>]

Element(text) == [el |-> TRUE, text |-> text]

Num(v) == [num |-> TRUE, v |-> v]

NotANumber == [num |-> FALSE, v |-> 0]

NoOuterBoundary == [path |-> FALSE, text |-> [some |-> FALSE, tokens |-> <<>>]]

Coordinates(tokens) == [path |-> TRUE, text |-> [some |-> TRUE, tokens |-> tokens]]

EmptyCoordinates == [path |-> TRUE, text |-> [some |-> FALSE, tokens |-> <<>>]]

DescAcres == <<"A", "r", "e", "a", ":", " ", "5", ".", "0", "0", "4", " ", "a", "c", "r", "e", "s">>
DescFurlongs == <<"A", "r", "e", "a", ":", " ", "2", " ", "f", "u", "r", "l", "o", "n", "g", "s">>
DescAcresOwner == <<"A", "r", "e", "a", ":", " ", "5", ".", "0", "0", "4", " ", "a", "c", "r", "e", "s", "\n", "O", "w", "n", "e", "r">>
DescTwoDots == <<"A", "r", "e", "a", ":", " ", "1", ".", "2", ".", "3", " ", "a", "c", "r", "e", "s">>

\* <name> absent, <name/>, whitespace only, " A "
Names == {NoElement, Element(<<>>), Element(<<" ">>), Element(<<" ", "A", " ">>)}

Descriptions ==
    {NoElement, Element(<<>>), Element(DescAcres), Element(DescFurlongs),
     Element(DescAcresOwner), Element(DescTwoDots)}

\* no outer boundary; <coordinates/>; "7"; "0,0 1,1"; "0,0 0,1,9 1,1";
\* "0,x"
CoordinateTexts ==
    {NoOuterBoundary,
     EmptyCoordinates,
     Coordinates(<<<<Num(7)>>>>),
     Coordinates(<<<<Num(0), Num(0)>>, <<Num(1), Num(1)>>>>),
     Coordinates(<<<<Num(0), Num(0)>>, <<Num(0), Num(1), Num(9)>>, <<Num(1), Num(1)>>>>),
     Coordinates(<<<<Num(0), NotANumber>>>>)}

\* a placemark without a Polygon (a point or a line), and the placemarks
\* with one
Placemarks ==
    {[polygon |-> FALSE, name |-> Element(<<"P">>), desc |-> NoElement,
      coords |-> NoOuterBoundary]}
    \cup [polygon : {TRUE}, name : Names, desc : Descriptions, coords : CoordinateTexts]

\* polygon_areas.csv before the run: absent, or the report of an earlier run
EarlierReport ==
    [exists |-> TRUE,
     rows |-> ReportRows(<<[name |-> <<"O">>, area |-> 1000, from |-> "annotation"]>>)]

NoReport == [exists |-> FALSE, rows |-> <<>>]

-----------------------------------------------------------------------------
(* main, from line 128 on: the document has been parsed                    *)

Exceptions == {"AttributeError", "TypeError", "ValueError"}

Init ==
    /\ doc = <<>>
    /\ results = <<>>
    /\ log = <<>>
    /\ calcs = 0
    /\ csvfile \in {NoReport, EarlierReport}
    /\ pc = "loop"
    /\ arg = <<>>
    /\ ret = <<>>

\* each placemark with what LoopBody does on it
Iterations == {[pm |-> pm, body |-> LoopBody(pm)] : pm \in Placemarks}

\* one iteration of the loop of line 129 on the next placemark of the
\* document; an exception leaves main
ProcessPlacemark ==
    /\ pc = "loop"
    /\ Len(doc) < MaxRecords
    /\ \E it \in Iterations :
          /\ doc' = Append(doc, it.pm)
          /\ results' = results \o it.body.out
          /\ log' = log \o it.body.logs
          /\ calcs' = calcs + it.body.calcs
          /\ pc' = IF it.body.exc = "none" THEN "loop" ELSE it.body.exc
    /\ UNCHANGED <<csvfile, arg, ret>>

\* the document has no further placemark: lines 171-192
EndOfDocument ==
    /\ pc = "loop"
    /\ LET end == Finish(results, csvfile)
       IN  /\ pc' = end.pc
           /\ csvfile' = end.csvfile
    /\ UNCHANGED <<doc, results, log, calcs, arg, ret>>

Next == ProcessPlacemark \/ EndOfDocument

Spec == Init /\ [][Next]_vars

-----------------------------------------------------------------------------
(* parse_area_from_description on its own                                  *)

S_Area == <<"A", "r", "e", "a", ":">>
S_area_sp == <<"a", "R", "E", "A", ":", " ">>
S_five == <<"5">>
S_one_two == <<"1", ".", "2">>
S_dot == <<".">>
S_sp_acres == <<" ", "a", "c", "r", "e", "s">>
S_SQ_MI == <<"S", "Q", " ", "M", "I">>
S_nl_Owner == <<"\n", "O", "w", "n", "e", "r">>
S_space == <<" ">>
S_semicolon == <<";">>

Segments ==
    {S_Area, S_area_sp, S_five, S_one_two, S_dot, S_sp_acres, S_SQ_MI,
     S_nl_Owner, S_space, S_semicolon}

RECURSIVE Concat(_)
Concat(ss) == IF ss = <<>> THEN <<>> ELSE Head(ss) \o Concat(Tail(ss))

\* the descriptions made of at most MaxSegs segments
DescriptionTexts ==
    {Concat(ss) : ss \in UNION {[1..n -> Segments] : n \in 0..MaxSegs}}

InitParse ==
    /\ doc = <<>>
    /\ results = <<>>
    /\ log = <<>>
    /\ calcs = 0
    /\ csvfile = NoReport
    /\ pc = "call"
    /\ arg \in DescriptionTexts
    /\ ret = <<>>

CallParse ==
    /\ pc = "call"
    /\ ret' = parse_area_from_description(arg)
    /\ pc' = "returned"
    /\ UNCHANGED <<doc, results, log, calcs, csvfile, arg>>

SpecParse == InitParse /\ [][CallParse]_vars

-----------------------------------------------------------------------------
(* convert_to_acres on its own                                             *)

TableAliases ==
    {U_acres, U_sq_mi, U_square_miles, U_hectares, U_sq_km, U_square_kilometers,
     U_sq_ft, U_square_feet, U_sqft, U_sq_m, U_square_meters, U_square_metres,
     U_sq_meter, U_sq_metre}

U_hectare == <<"h", "e", "c", "t", "a", "r", "e">>
U_furlongs == <<"f", "u", "r", "l", "o", "n", "g", "s">>
U_Sq_Mi == <<"S", "q", " ", "M", "i">>

\* the aliases, in upper case, with a space before or after, and others
UnitTexts ==
    TableAliases
    \cup {Upper(u) : u \in TableAliases}
    \cup {u \o <<" ">> : u \in TableAliases}
    \cup {<<" ">> \o u : u \in TableAliases}
    \cup {U_hectare, U_furlongs, U_Sq_Mi, <<>>}

Values == {1300 * k : k \in 0..MaxValue}

InitUnit ==
    /\ doc = <<>>
    /\ results = <<>>
    /\ log = <<>>
    /\ calcs = 0
    /\ csvfile = NoReport
    /\ pc = "call"
    /\ arg \in [value : Values, unit : UnitTexts]
    /\ ret = <<>>

CallConvert ==
    /\ pc = "call"
    /\ ret' = convert_to_acres(arg.value, arg.unit)
    /\ pc' = "returned"
    /\ UNCHANGED <<doc, results, log, calcs, csvfile, arg>>

SpecUnit == InitUnit /\ [][CallConvert]_vars

-----------------------------------------------------------------------------
(* Properties                                                              *)

Last(s) == s[Len(s)]

\* the step is an iteration of the loop, on the placemark Last(doc')
NewPlacemark == Len(doc') = Len(doc) + 1

\* the placemark has a Polygon whose exterior ring parses to a non-empty list
HasRing(pm) ==
    /\ pm.polygon
    /\ pm.coords.path
    /\ pm.coords.text.some
    /\ ParseTokens(pm.coords.text.tokens).exc = "none"
    /\ ParseTokens(pm.coords.text.tokens).coords # <<>>

RingOf(pm) == ParseTokens(pm.coords.text.tokens).coords

\* the name the specification gives a record: the trimmed text, "Unnamed"
\* when the field is missing, empty or blank
SpecifiedName(name_el) ==
    IF ~name_el.el \/ Strip(name_el.text) = <<>> THEN Unnamed ELSE Strip(name_el.text)

\* what the loop does on a placemark, from the table
BodyOf(pm) == (CHOOSE it \in Iterations : it.pm = pm).body

\* C1: for every record with a polygon element and a non-empty exterior
\* ring, (a) an annotation whose unit convert_to_acres accepts gives the
\* converted value as acres without a geometric calculation, (b) an
\* annotation whose unit is unknown gives the geometric area as acres and
\* exactly one warning with the unit and the name, (c) no annotation gives
\* the geometric area as acres and no warning.
C1_ResolutionPolicy ==
    [][NewPlacemark =>
        LET pm   == Last(doc')
            name == ResolveName(pm.name)
            info == ResolveAnnotation(pm.desc)
            conv == convert_to_acres(info.value, info.unit)
            geo  == GeometricArea(RingOf(pm))
        IN  (HasRing(pm) /\ name.exc = "none" /\ info.exc = "none") =>
            /\ (info.found /\ conv.exc = "none") =>
                  /\ Len(results') = Len(results) + 1
                  /\ Last(results').area = conv.val
                  /\ calcs' = calcs
                  /\ log' = log
            /\ (info.found /\ conv.exc # "none") =>
                  /\ Len(results') = Len(results) + 1
                  /\ Last(results').area = geo.val
                  /\ calcs' = calcs + 1
                  /\ log' = Append(log, [kind |-> "unknown unit", name |-> name.name,
                                         unit |-> info.unit])
            /\ ~info.found =>
                  /\ Len(results') = Len(results) + 1
                  /\ Last(results').area = geo.val
                  /\ calcs' = calcs + 1
                  /\ log' = log]_vars

\* C2: a result carries the trimmed name of its record, "Unnamed" when the
\* name field is missing, empty or blank; and a run never fails because of
\* such a name: if it fails on the record, it fails the same way on the
\* record without its name field.
C2_NameDefaulting ==
    [][NewPlacemark =>
        LET pm == Last(doc')
        IN  /\ Len(results') > Len(results) =>
                  Last(results').name = SpecifiedName(pm.name)
            /\ (pm.polygon /\ SpecifiedName(pm.name) = Unnamed /\ pc' \in Exceptions) =>
                  BodyOf([pm EXCEPT !.name = NoElement]).exc = pc']_vars

\* C3: when the report is written, the results are, in document order, one
\* per placemark that has a Polygon and a non-empty exterior ring, each with
\* the name of its placemark, and the data rows of the report follow them.
C3_ResultOrder ==
    pc = "written" =>
        LET usable == SelectSeq(doc, HasRing)
        IN  /\ Len(results) = Len(usable)
            /\ \A i \in 1..Len(usable) :
                  /\ results[i] = BodyOf(usable[i]).out[1]
                  /\ results[i].name = ResolveName(usable[i].name).name
            /\ Len(csvfile.rows) = Len(usable) + 1
            /\ \A i \in 1..Len(usable) : csvfile.rows[i + 1][1] = results[i].name

\* two placemarks gave two different results and a report was written
C3_Witness ==
    /\ pc = "written"
    /\ Len(doc) = 2
    /\ Len(results) = 2
    /\ results[1] # results[2]

RECURSIVE SumOfAcres(_, _)
\* the sum of the unrounded acres of the first n results
SumOfAcres(rs, n) == IF n = 0 THEN 0 ELSE SumOfAcres(rs, n - 1) + rs[n].area

\* C4: a written report is the header row followed by one row per result in
\* result order, each with the name and the acres to 2 decimals; the third
\* field is the total of the unrounded acres to 2 decimals on the first data
\* row and empty on every later one.
C4_ReportLayout ==
    pc = "written" =>
        /\ results # <<>>
        /\ csvfile.exists
        /\ Len(csvfile.rows) = Len(results) + 1
        /\ csvfile.rows[1] = <<H_polygon_name, H_total_acreage, H_total>>
        /\ \A i \in 1..Len(results) :
              /\ csvfile.rows[i + 1][1] = results[i].name
              /\ csvfile.rows[i + 1][2] = Format2(results[i].area)
              /\ csvfile.rows[i + 1][3] =
                    IF i = 1 THEN Format2(SumOfAcres(results, Len(results))) ELSE <<>>

\* a report of two results of 5.004 acres: the total reads 10.01, which is
\* not the sum of the rounded acres
C4_Witness ==
    /\ pc = "written"
    /\ Len(results) = 2
    /\ results[1].area = 5004
    /\ results[2].area = 5004
    /\ csvfile.rows[2][3] = <<"1", "0", ".", "0", "1">>
    /\ csvfile.rows[3][3] = <<>>

\* C5: when the loop over the placemarks ends without a result, the run
\* ends with the "no polygons found" outcome and the output file is left as
\* it was: no table is written.
C5_EmptyResultSet ==
    [][(pc = "loop" /\ results = <<>> /\ ~NewPlacemark /\ pc' # "loop") =>
        (pc' = "empty" /\ csvfile' = csvfile)]_vars

\* a document whose polygon records were all skipped for lack of a ring ends
\* in the empty outcome, the report of an earlier run untouched
C5_Witness ==
    /\ pc = "empty"
    /\ Len(doc) = 2
    /\ doc[1].polygon
    /\ doc[2].polygon
    /\ Len(log) = 2
    /\ csvfile = EarlierReport

\* C6: a placemark with a Polygon and no outer boundary path gives no
\* result and exactly one warning naming the record, and the loop goes on
\* to the next placemark.
C6_MissingExteriorRing ==
    [][NewPlacemark =>
        LET pm == Last(doc')
        IN  (pm.polygon /\ ~pm.coords.path) =>
               /\ results' = results
               /\ pc' = "loop"
               /\ log' = Append(log, [kind |-> "no coordinates",
                                      name |-> SpecifiedName(pm.name), unit |-> <<>>])]_vars

\* the aliases the claim lists
ListedAliases ==
    {U_acres, U_sq_mi, U_square_miles, U_hectares, U_sq_km, U_square_kilometers,
     U_sq_ft, U_square_feet, U_sqft, U_sq_m, U_square_meters, U_square_metres,
     U_sq_meter, U_sq_metre}

\* C7: convert_to_acres succeeds exactly when the lowercased unit is one of
\* the listed aliases and fails with the unknown-unit error otherwise;
\* "acres" returns the value and "sq mi" or "square miles" the value times
\* 640, in any letter case.
C7_ClosedTable ==
    pc = "returned" =>
        /\ (ret.exc = "none") <=> (Lower(arg.unit) \in ListedAliases)
        /\ ret.exc \in {"none", "ValueError"}
        /\ Lower(arg.unit) = U_acres => ret.val = arg.value
        /\ Lower(arg.unit) \in {U_sq_mi, U_square_miles} => ret.val = arg.value * 640

\* "hectares " with a space after it has been refused
C7_Witness ==
    /\ pc = "returned"
    /\ arg.unit = U_hectares \o <<" ">>
    /\ arg.value = 5200
    /\ ret.exc = "ValueError"

\* the number of points of the exterior ring of a placemark with a ring
RingPoints(pm) == IF HasRing(pm) THEN Len(RingOf(pm)) ELSE 0

\* C8: a written report has no more rows than the document has records
\* whose exterior ring has at least 3 points: a ring of fewer points never
\* contributes a result.
C8_DegenerateRings ==
    pc = "written" =>
        Len(results) <= Cardinality({i \in 1..Len(doc) : RingPoints(doc[i]) >= 3})

\* C9: parse_area_from_description returns a pair or "no annotation" for
\* every description, and never raises.
C9_ParserTotal ==
    pc = "returned" => ret.exc = "none"

\* the description holds "Area:", a number (after optional whitespace) and a
\* table alias followed by whitespace
AliasThenSpace(desc_el) == desc_el = Element(DescAcresOwner)

\* C10: for a record with a non-empty exterior ring whose annotation has a
\* table alias followed by whitespace and further words, the acres come from
\* the geometric calculation, with one unknown-unit warning, and never from
\* the annotated value.
C10_UnitRun ==
    [][NewPlacemark =>
        LET pm == Last(doc')
        IN  (HasRing(pm) /\ AliasThenSpace(pm.desc)) =>
               /\ Len(results') = Len(results) + 1
               /\ Last(results').from = "geometry"
               /\ Last(results').area = GeometricArea(RingOf(pm)).val
               /\ Len(log') = Len(log) + 1
               /\ Last(log').kind = "unknown unit"]_vars

====
